---- MODULE Spec2Model ----
(***************************************************************************)
(* nawa-rate: a rate limiter (fixed-window and sliding-window algorithms)  *)
(* over a counter store (in-process MemoryStorage, or RedisStorage running *)
(* one Lua script).  Time is in milliseconds.  Every action is one         *)
(* synchronous segment of the TypeScript code: the code between two        *)
(* `await`s runs without interleaving, and the clock may advance and other *)
(* callers may run between two segments.                                   *)
(***************************************************************************)
EXTENDS Integers, Sequences, FiniteSets, TLC

\* ------------------------------------------------------------------ bounds
NProcs == 2
MaxCalls == 3
MaxNow == 2000
TickMs == 500

Procs == 1..NProcs
Identifiers == {"a", "a:1"}
Limits == {1, 2}
Windows == {1000, 2000}

\* ------------------------------------------------------- program constants
MsPerSecond == 1000
PseudoTtlSeconds == 1
StatusTooManyRequests == 429

VARIABLES
  now,             \* Date.now(), the clock shared by the callers and the store
  store,           \* MemoryStorage.store / the Redis keyspace: key -> Entry
  cleanupTimer,    \* MemoryStorage.cleanupTimer: "set" or "undefined"
  limit,           \* RateLimiter.limit
  windowMs,        \* RateLimiter.windowMs
  algorithm,       \* RateLimiter.algorithm
  storage,         \* RateLimiter.storage: "memory" or "redis"
  onLimitReached,  \* RateLimiter.onLimitReached: "set" or "undefined"
  skipHeaders,     \* RateLimiter.skipHeaders
  prefix,          \* RateLimiter.prefix
  proc,            \* each caller's position in check()/limit_() and its locals
  incLog,          \* history: key -> the storage increments of it, in order
  firstAt,         \* history: identifier -> clock of its first check over MemoryStorage
                   \* under fixed-window, or -1
  nCalls,          \* history: number of check()/limit_() calls started
  unswept          \* history of a MemoryStorage used directly: its map as it
                   \* would be had the sweep never run

config == <<limit, windowMs, algorithm, storage, onLimitReached, skipHeaders, prefix>>
history == <<incLog, firstAt, nCalls, unswept>>
vars == <<now, store, cleanupTimer, config, proc, history>>

\* ------------------------------------------------------------ arithmetic
\* Math.ceil(a / b) for integers a and b > 0 (\div rounds towards minus infinity)
CeilDiv(a, b) == -((-a) \div b)

Max(a, b) == IF a >= b THEN a ELSE b

\* ------------------------------------------------------------ MemoryStorage
Null == <<>>

Has(s, key) == key \in DOMAIN s

Put(s, key, entry) == [k \in DOMAIN s \cup {key} |-> IF k = key THEN entry ELSE s[k]]

Remove(s, keys) == [k \in DOMAIN s \ keys |-> s[k]]

\* existing && existing.windowExpires > now
Live(s, key, t) == Has(s, key) /\ s[key].windowExpires > t

\* what a reader of the map sees at key: <<entry>> or <<>>
Get(s, key) == IF Has(s, key) THEN <<s[key]>> ELSE Null

\* mutant: the count read before a suspension is written back by nobody (a
\* lost update): the live entry keeps its count
MemoryIncrementLost(s, key, ttlSeconds, t) ==
  IF Live(s, key, t)
  THEN [store |-> s,
        count |-> s[key].count + 1,
        windowExpires |-> s[key].windowExpires]
  ELSE [store |-> Put(s, key, [count |-> 1,
                               windowExpires |-> t + ttlSeconds * MsPerSecond]),
        count |-> 1,
        windowExpires |-> t + ttlSeconds * MsPerSecond]

\* mutant: every increment of a live entry renews its expiry
MemoryIncrementExtends(s, key, ttlSeconds, t) ==
  IF Live(s, key, t)
  THEN [store |-> Put(s, key, [count |-> s[key].count + 1,
                               windowExpires |-> t + ttlSeconds * MsPerSecond]),
        count |-> s[key].count + 1,
        windowExpires |-> t + ttlSeconds * MsPerSecond]
  ELSE [store |-> Put(s, key, [count |-> 1,
                               windowExpires |-> t + ttlSeconds * MsPerSecond]),
        count |-> 1,
        windowExpires |-> t + ttlSeconds * MsPerSecond]

\* mutant: an entry still in the map is incremented, expired or not
MemoryIncrementStale(s, key, ttlSeconds, t) ==
  IF Has(s, key)
  THEN [store |-> Put(s, key, [count |-> s[key].count + 1,
                               windowExpires |-> s[key].windowExpires]),
        count |-> s[key].count + 1,
        windowExpires |-> s[key].windowExpires]
  ELSE [store |-> Put(s, key, [count |-> 1,
                               windowExpires |-> t + ttlSeconds * MsPerSecond]),
        count |-> 1,
        windowExpires |-> t + ttlSeconds * MsPerSecond]

\* MemoryStorage.increment(key, ttlSeconds) run at clock t: the map afterwards
\* and the IncrementResult
MemoryIncrement(s, key, ttlSeconds, t) ==
  IF Live(s, key, t)
  THEN [store |-> Put(s, key, [count |-> s[key].count + 1,
                               windowExpires |-> s[key].windowExpires]),
        count |-> s[key].count + 1,
        windowExpires |-> s[key].windowExpires]
  ELSE [store |-> Put(s, key, [count |-> 1,
                               windowExpires |-> t + ttlSeconds * MsPerSecond]),
        count |-> 1,
        windowExpires |-> t + ttlSeconds * MsPerSecond]

\* mutant: the remaining time is returned as it is, positive or not
MemoryTtlUnclamped(s, key, t) ==
  IF ~Has(s, key) THEN -1 ELSE s[key].windowExpires - t

\* MemoryStorage.ttl(key) run at clock t
MemoryTtl(s, key, t) ==
  IF ~Has(s, key) THEN -1
  ELSE IF s[key].windowExpires - t > 0 THEN s[key].windowExpires - t ELSE -1

\* mutant: the sweep with its test inverted
MemoryCleanupInverted(s, t) == Remove(s, {k \in DOMAIN s : s[k].windowExpires > t})

\* MemoryStorage.cleanup() run at clock t
MemoryCleanup(s, t) == Remove(s, {k \in DOMAIN s : s[k].windowExpires <= t})

\* ------------------------------------------------------------ RedisStorage
\* the expiry of a key that has none (PTTL answers -1 for it)
Persist == -1

\* a key exists at server clock t: Redis drops a key once its expiry passes
RedisLive(s, key, t) ==
  Has(s, key) /\ (s[key].windowExpires = Persist \/ s[key].windowExpires > t)

\* redis.call('INCR', key): a missing key counts from 0 and gets no expiry
RedisIncr(s, key, t) ==
  IF RedisLive(s, key, t)
  THEN Put(s, key, [count |-> s[key].count + 1, windowExpires |-> s[key].windowExpires])
  ELSE Put(s, key, [count |-> 1, windowExpires |-> Persist])

\* redis.call('PEXPIRE', key, ttl_ms)
RedisPexpire(s, key, ttl_ms, t) ==
  Put(s, key, [count |-> s[key].count, windowExpires |-> t + ttl_ms])

\* redis.call('PTTL', key) of an existing key
RedisPttl(s, key, t) ==
  IF s[key].windowExpires = Persist THEN -1 ELSE s[key].windowExpires - t

\* mutant: the script without its PEXPIRE
IncrementScriptNoExpire(s, key, ttl_ms, nowArg, t) ==
  LET incremented == RedisIncr(s, key, t)
      pttl == RedisPttl(incremented, key, t)
  IN [store |-> incremented,
      count |-> incremented[key].count,
      windowExpires |-> nowArg + (IF pttl > 0 THEN pttl ELSE ttl_ms)]

\* mutant: the script answering the larger of the remaining lifetime and the TTL
IncrementScriptMax(s, key, ttl_ms, nowArg, t) ==
  LET incremented == RedisIncr(s, key, t)
      count == incremented[key].count
      expired == IF count = 1 THEN RedisPexpire(incremented, key, ttl_ms, t)
                 ELSE incremented
      pttl == RedisPttl(expired, key, t)
  IN [store |-> expired,
      count |-> count,
      windowExpires |-> nowArg + Max(pttl, ttl_ms)]

\* INCREMENT_SCRIPT run by the server at its clock t, with ARGV[1] = ttl_ms and
\* ARGV[2] = nowArg: the keyspace afterwards and the reply {count, expires}
IncrementScript(s, key, ttl_ms, nowArg, t) ==
  LET incremented == RedisIncr(s, key, t)
      count == incremented[key].count
      expired == IF count = 1 THEN RedisPexpire(incremented, key, ttl_ms, t)
                 ELSE incremented
      pttl == RedisPttl(expired, key, t)
  IN [store |-> expired,
      count |-> count,
      windowExpires |-> nowArg + (IF pttl > 0 THEN pttl ELSE ttl_ms)]

\* ------------------------------------------------------------ RateLimiter
\* mutant: the key without the identifier
StorageKeyShared(pfx, identifier) == pfx

\* `${this.prefix}:${identifier}`
StorageKey(pfx, identifier) == pfx \o ":" \o identifier

\* Math.ceil(this.windowMs / 1000) in check()
WindowSeconds(w) == CeilDiv(w, MsPerSecond)

\* Math.ceil(windowMs / 1000) in fixedWindow(), whose windowMs parameter
\* receives check()'s windowSeconds
FixedTtlSeconds(w) == CeilDiv(w, MsPerSecond)

\* mutant: remaining without its Math.max(0, ...)
FixedWindowResultUnclamped(lim, count, windowExpires, t) ==
  [success |-> count <= lim,
   limit |-> lim,
   remaining |-> lim - count,
   reset |-> windowExpires,
   retryAfter |-> IF count <= lim THEN 0
                  ELSE CeilDiv(windowExpires - t, MsPerSecond)]

\* the Decision fixedWindow() derives from the IncrementResult, reading the
\* clock at t
FixedWindowResult(lim, count, windowExpires, t) ==
  [success |-> count <= lim,
   limit |-> lim,
   remaining |-> Max(0, lim - count),
   reset |-> windowExpires,
   retryAfter |-> IF count <= lim THEN 0
                  ELSE CeilDiv(windowExpires - t, MsPerSecond)]

\* ------------------------------------------------------------ slidingWindow
\* Math.floor(now / windowMs)
WindowIndex(t, w) == t \div w

\* `${key}:${windowIndex}`
WindowKey(key, index) == key \o ":" \o ToString(index)

\* Math.ceil(windowMs / 1000) in slidingWindow()
SlidingTtlSeconds(w) == CeilDiv(w, MsPerSecond)

\* mutant: the weighted previous count alone, the current count left out
EffectiveOverlapOnly(prevCount, currentCount, t, w) ==
  LET elapsed == t - WindowIndex(t, w) * w
  IN CeilDiv(prevCount * (w - elapsed), w)

\* Math.ceil(prevCount * overlapRatio + currentCount), where
\* overlapRatio = 1 - elapsed / windowMs and elapsed = now - windowIndex * windowMs;
\* in exact arithmetic that is ceil((prevCount * (windowMs - elapsed) +
\* currentCount * windowMs) / windowMs)
Effective(prevCount, currentCount, t, w) ==
  LET elapsed == t - WindowIndex(t, w) * w
  IN CeilDiv(prevCount * (w - elapsed) + currentCount * w, w)

\* mutant: effective < limit in place of effective <= limit
SlidingWindowResultStrict(lim, w, t, prevCount, currentCount, windowExpires) ==
  LET effective == Effective(prevCount, currentCount, t, w)
  IN [success |-> effective < lim,
      limit |-> lim,
      remaining |-> Max(0, lim - effective),
      reset |-> windowExpires,
      retryAfter |-> IF effective < lim THEN 0
                     ELSE CeilDiv(windowExpires - t, MsPerSecond)]

\* the Decision slidingWindow() derives; t is the `now` it read on entry
SlidingWindowResult(lim, w, t, prevCount, currentCount, windowExpires) ==
  LET effective == Effective(prevCount, currentCount, t, w)
  IN [success |-> effective <= lim,
      limit |-> lim,
      remaining |-> Max(0, lim - effective),
      reset |-> windowExpires,
      retryAfter |-> IF effective <= lim THEN 0
                     ELSE CeilDiv(windowExpires - t, MsPerSecond)]

\* a caller's locals; `now` is the clock slidingWindow() read on entry,
\* `prevTtl` what storage.ttl answered, `ttlSeconds` the argument of a direct
\* storage.increment, `applied` what the applyHeaders closure returned; `at` is
\* the clock at the increment of the caller's own counter and `entry` that
\* increment's place in the key's incLog (both history); `sentAt` is the
\* clock RedisStorage.increment read before sending the script under
\* sliding-window, `issued` the number of storage calls the check has made
\* (history)
IdleProc ==
  [pc |-> "idle", op |-> "none", prefix |-> "", identifier |-> "", key |-> "",
   now |-> -1, prevTtl |-> -1, ttlSeconds |-> 0, count |-> 0, windowExpires |-> 0,
   prevCount |-> 0, at |-> -1, entry |-> 0, result |-> Null, handler |-> "none",
   blockedResponse |-> Null, applied |-> Null, sentAt |-> -1, issued |-> 0]

\* the key of the window before the one the caller entered in
PrevKeyOf(rec) == WindowKey(rec.key, WindowIndex(rec.now, windowMs) - 1)

\* ------------------------------------------------------------ limit_()
\* String(n) of an integer
String(n) == ToString(n)

\* JSON.stringify({ error: "Too Many Requests", retryAfter: result.retryAfter })
BlockedBody(result) ==
  "{\"error\":\"Too Many Requests\",\"retryAfter\":" \o String(result.retryAfter) \o "}"

\* RateLimiter.defaultBlockedResponse(result)
DefaultBlockedResponse(result) ==
  [status |-> StatusTooManyRequests,
   body |-> BlockedBody(result),
   headers |-> [h \in {"Content-Type", "X-RateLimit-Limit", "X-RateLimit-Remaining",
                       "X-RateLimit-Reset", "Retry-After"} |->
                  CASE h = "Content-Type" -> "application/json"
                    [] h = "X-RateLimit-Limit" -> String(result.limit)
                    [] h = "X-RateLimit-Remaining" -> "0"
                    [] h = "X-RateLimit-Reset" -> String(CeilDiv(result.reset, MsPerSecond))
                    [] h = "Retry-After" -> String(result.retryAfter)]]

\* the Response a configured onLimitReached handler answers with
\* (new Response("Custom", { status: 429 }) in the tests)
CustomResponse ==
  [status |-> StatusTooManyRequests,
   body |-> "Custom",
   headers |-> [h \in {"Content-Type"} |-> "text/plain;charset=UTF-8"]]

\* what the handler does when limit_() calls it: it answers with a Response,
\* answers with undefined, or throws (a rejected promise is the same to await)
HandlerOutcomes == {"response", "undefined", "throws"}

\* check()/limit_() once the algorithm has produced `result`: check() returns
\* it; limit_() returns { result, blockedResponse: null } when allowed, builds
\* the default response when no handler is configured, else awaits the handler
Decided(rec, result) ==
  IF rec.op = "check" \/ result.success
  THEN [rec EXCEPT !.pc = "returned", !.result = <<result>>]
  ELSE IF onLimitReached = "set"
  THEN [rec EXCEPT !.pc = "onLimitReached", !.result = <<result>>]
  ELSE [rec EXCEPT !.pc = "returned", !.result = <<result>>,
                   !.blockedResponse = <<DefaultBlockedResponse(result)>>]

\* mutant: the handler's answer is returned as it is, undefined too
LimitOutcomeNoFallback(rec, outcome) ==
  CASE outcome = "response" ->
         [rec EXCEPT !.pc = "returned", !.handler = outcome,
                     !.blockedResponse = <<CustomResponse>>]
    [] outcome = "undefined" ->
         [rec EXCEPT !.pc = "returned", !.handler = outcome]
    [] outcome = "throws" ->
         [rec EXCEPT !.pc = "rejected", !.handler = outcome]

\* limit_() after `await this.onLimitReached(result, req)` settles with outcome
LimitOutcome(rec, outcome) ==
  CASE outcome = "response" ->
         [rec EXCEPT !.pc = "returned", !.handler = outcome,
                     !.blockedResponse = <<CustomResponse>>]
    [] outcome = "undefined" ->
         [rec EXCEPT !.pc = "returned", !.handler = outcome,
                     !.blockedResponse = <<DefaultBlockedResponse(rec.result[1])>>]
    [] outcome = "throws" ->
         [rec EXCEPT !.pc = "rejected", !.handler = outcome]

\* ------------------------------------------------------------ history
\* one storage increment: whether it was the check's own counter ("current")
\* or the sliding window's previous one ("previous"), the clock at which the
\* store ran it, the ttlSeconds it was called with, the IncrementResult, the
\* expiry the store holds for the key afterwards, and the verdict of the check
\* that made it once it is decided
LogEntry(role, key, ttlSeconds, r) ==
  [role |-> role, at |-> now, ttlSeconds |-> ttlSeconds,
   count |-> r.count, windowExpires |-> r.windowExpires,
   life |-> r.store[key].windowExpires, decision |-> "pending"]

LogOf(key) == IF key \in DOMAIN incLog THEN incLog[key] ELSE <<>>

Logged(key, entry) == Put(incLog, key, Append(LogOf(key), entry))

FirstCheck(identifier, t) ==
  IF firstAt[identifier] = -1 THEN [firstAt EXCEPT ![identifier] = t] ELSE firstAt

Verdict(result) == IF result.success THEN "allowed" ELSE "denied"

\* ------------------------------------------------------------ actions
\* callers are interchangeable: a new call takes the lowest free slot
Free(p) == proc[p].pc = "idle" /\ \A q \in Procs : q < p => proc[q].pc # "idle"

\* the windows the sliding-window limiter is configured with: 1000 ms puts
\* three windows, and the expiry of a window's key, within MaxNow
SlidingWindows == {1000}

\* one RateLimiter over one MemoryStorage, just constructed.  The denial
\* handler is configured under fixed-window only: limit_() treats the
\* Decision alike whichever algorithm produced it
Init ==
  /\ now = 0
  /\ store = [k \in {} |-> [count |-> 0, windowExpires |-> 0]]
  /\ cleanupTimer = "set"
  /\ limit \in Limits
  /\ algorithm \in {"fixed-window", "sliding-window"}
  /\ windowMs \in IF algorithm = "fixed-window" THEN Windows ELSE SlidingWindows
  /\ storage = "memory"
  /\ onLimitReached \in IF algorithm = "fixed-window" THEN {"undefined", "set"}
                                                        ELSE {"undefined"}
  /\ skipHeaders = FALSE
  /\ prefix = "rl"
  /\ proc = [p \in Procs |-> IdleProc]
  /\ incLog = [k \in {} |-> <<>>]
  /\ firstAt = [i \in Identifiers |-> -1]
  /\ nCalls = 0
  /\ unswept = store

\* the clock advances
Tick ==
  /\ now + TickMs <= MaxNow
  /\ now' = now + TickMs
  /\ UNCHANGED <<store, cleanupTimer, config, proc, history>>

\* the setInterval callback of the MemoryStorage constructor fires
Cleanup ==
  /\ storage = "memory"
  /\ cleanupTimer = "set"
  /\ store' = MemoryCleanup(store, now)
  /\ UNCHANGED <<now, cleanupTimer, config, proc, history>>

\* check(identifier) or limit_(req) under fixed-window over MemoryStorage, up
\* to the first await: the key, windowSeconds, and fixedWindow()'s call of
\* storage.increment, which runs to its end without suspending
CallFixedOf(p, pfx, op, identifier) ==
  /\ Free(p)
  /\ nCalls < MaxCalls
  /\ algorithm = "fixed-window"
  /\ storage = "memory"
  /\ LET key == StorageKey(pfx, identifier)
         rec == [IdleProc EXCEPT !.op = op, !.prefix = pfx,
                                 !.identifier = identifier, !.key = key,
                                 !.issued = 1]
         r == MemoryIncrement(store, key, FixedTtlSeconds(WindowSeconds(windowMs)), now)
     IN /\ store' = r.store
        /\ incLog' = Logged(key, LogEntry("current", key,
                                         FixedTtlSeconds(WindowSeconds(windowMs)), r))
        /\ firstAt' = FirstCheck(identifier, now)
        /\ proc' = [proc EXCEPT ![p] =
                      [rec EXCEPT !.pc = "fixedWindow", !.count = r.count,
                                  !.windowExpires = r.windowExpires,
                                  !.at = now, !.entry = Len(LogOf(key)) + 1]]
  /\ nCalls' = nCalls + 1
  /\ UNCHANGED <<now, cleanupTimer, config, unswept>>

\* the call made on the limiter of this model's fields
CallFixed(p, op, identifier) == CallFixedOf(p, prefix, op, identifier)

\* fixedWindow() resumes after `await storage.increment`: it reads the clock
\* again and derives the Decision
FixedDecide(p) ==
  /\ proc[p].pc = "fixedWindow"
  /\ LET result == FixedWindowResult(limit, proc[p].count, proc[p].windowExpires, now)
     IN /\ proc' = [proc EXCEPT ![p] = Decided(proc[p], result)]
        /\ incLog' = [incLog EXCEPT ![proc[p].key][proc[p].entry].decision =
                                       Verdict(result)]
  /\ UNCHANGED <<now, store, cleanupTimer, config, firstAt, nCalls, unswept>>

\* check(identifier) or limit_(req) under sliding-window over MemoryStorage,
\* up to the first await: slidingWindow() reads the clock, and
\* storage.ttl(prevKey) runs to its end without suspending
CallSlidingOf(p, pfx, op, identifier) ==
  /\ Free(p)
  /\ nCalls < MaxCalls
  /\ algorithm = "sliding-window"
  /\ storage = "memory"
  /\ LET key == StorageKey(pfx, identifier)
         prevKey == WindowKey(key, WindowIndex(now, windowMs) - 1)
     IN proc' = [proc EXCEPT ![p] =
                   [IdleProc EXCEPT !.pc = "ttl", !.op = op, !.prefix = pfx,
                                    !.identifier = identifier,
                                    !.key = key, !.now = now, !.issued = 1,
                                    !.prevTtl = MemoryTtl(store, prevKey, now)]]
  /\ nCalls' = nCalls + 1
  /\ UNCHANGED <<now, store, cleanupTimer, config, incLog, firstAt, unswept>>

\* the call made on the limiter of this model's fields
CallSliding(p, op, identifier) == CallSlidingOf(p, prefix, op, identifier)

\* slidingWindow() resumes after `await storage.ttl`: storage.increment of the
\* current window's key, with twice the window's seconds as TTL
SlidingIncrement(p) ==
  /\ proc[p].pc = "ttl"
  /\ LET currentKey == WindowKey(proc[p].key, WindowIndex(proc[p].now, windowMs))
         r == MemoryIncrement(store, currentKey, SlidingTtlSeconds(windowMs) * 2, now)
     IN /\ store' = r.store
        /\ incLog' = Logged(currentKey, LogEntry("current", currentKey,
                                                SlidingTtlSeconds(windowMs) * 2, r))
        /\ proc' = [proc EXCEPT ![p].pc = "increment", ![p].count = r.count,
                                ![p].windowExpires = r.windowExpires,
                                ![p].at = now,
                                ![p].entry = Len(LogOf(currentKey)) + 1,
                                ![p].issued = @ + 1]
  /\ UNCHANGED <<now, cleanupTimer, config, firstAt, nCalls, unswept>>

\* slidingWindow() resumes after `await storage.increment(currentKey)` with
\* prevTtl > 0: the increment of the previous window's key, with TTL 1
SlidingPseudoIncrement(p) ==
  /\ proc[p].pc = "increment"
  /\ proc[p].prevTtl > 0
  /\ LET prevKey == WindowKey(proc[p].key, WindowIndex(proc[p].now, windowMs) - 1)
         pseudoIncr == MemoryIncrement(store, prevKey, PseudoTtlSeconds, now)
     IN /\ store' = pseudoIncr.store
        /\ incLog' = Logged(prevKey, LogEntry("previous", prevKey, PseudoTtlSeconds,
                                             pseudoIncr))
        /\ proc' = [proc EXCEPT ![p].pc = "pseudoIncr", ![p].issued = @ + 1,
                                ![p].prevCount = Max(0, pseudoIncr.count - 1)]
  /\ UNCHANGED <<now, cleanupTimer, config, firstAt, nCalls, unswept>>

\* slidingWindow() derives the Decision: after the current key's increment
\* when prevTtl <= 0 (prevCount stays 0), else after the previous key's
SlidingDecide(p) ==
  /\ \/ proc[p].pc = "increment" /\ proc[p].prevTtl <= 0
     \/ proc[p].pc = "pseudoIncr"
  /\ LET result == SlidingWindowResult(limit, windowMs, proc[p].now, proc[p].prevCount,
                                       proc[p].count, proc[p].windowExpires)
         currentKey == WindowKey(proc[p].key, WindowIndex(proc[p].now, windowMs))
     IN /\ proc' = [proc EXCEPT ![p] = Decided(proc[p], result)]
        /\ incLog' = [incLog EXCEPT ![currentKey][proc[p].entry].decision =
                                       Verdict(result)]
  /\ UNCHANGED <<now, store, cleanupTimer, config, firstAt, nCalls, unswept>>

\* the awaited onLimitReached handler settles
HandlerSettles(p, outcome) ==
  /\ proc[p].pc = "onLimitReached"
  /\ proc' = [proc EXCEPT ![p] = LimitOutcome(proc[p], outcome)]
  /\ UNCHANGED <<now, store, cleanupTimer, config, history>>

\* the caller takes the returned value (or the rejection) and is free again
Return(p) ==
  /\ proc[p].pc \in {"returned", "rejected"}
  /\ proc' = [proc EXCEPT ![p] = IdleProc]
  /\ UNCHANGED <<now, store, cleanupTimer, config, history>>

\* check(identifier) or limit_(req) under fixed-window over RedisStorage, up
\* to the first await: RedisStorage.increment reads the client's clock and
\* sends the script
CallFixedRedis(p, op, identifier) ==
  /\ Free(p)
  /\ nCalls < MaxCalls
  /\ algorithm = "fixed-window"
  /\ storage = "redis"
  /\ proc' = [proc EXCEPT ![p] =
                [IdleProc EXCEPT !.pc = "eval", !.op = op, !.prefix = prefix,
                                 !.identifier = identifier,
                                 !.key = StorageKey(prefix, identifier), !.now = now,
                                 !.issued = 1]]
  /\ nCalls' = nCalls + 1
  /\ UNCHANGED <<now, store, cleanupTimer, config, incLog, firstAt, unswept>>

\* the server runs the script of one caller, as one indivisible unit
RedisEval(p) ==
  /\ proc[p].pc = "eval"
  /\ LET key == proc[p].key
         ttlMs == FixedTtlSeconds(WindowSeconds(windowMs)) * MsPerSecond
         r == IncrementScript(store, key, ttlMs, proc[p].now, now)
     IN /\ store' = r.store
        /\ incLog' = Logged(key, LogEntry("current", key,
                                         FixedTtlSeconds(WindowSeconds(windowMs)), r))
        /\ proc' = [proc EXCEPT ![p].pc = "fixedWindow", ![p].count = r.count,
                                ![p].windowExpires = r.windowExpires,
                                ![p].at = now, ![p].entry = Len(LogOf(key)) + 1]
  /\ UNCHANGED <<now, cleanupTimer, config, firstAt, nCalls, unswept>>

\* the server drops the keys whose expiry has passed
RedisExpire ==
  /\ storage = "redis"
  /\ store' = Remove(store, {k \in DOMAIN store : ~RedisLive(store, k, now)})
  /\ UNCHANGED <<now, cleanupTimer, config, proc, history>>

Ops == {"check", "limit_"}

Next ==
  \/ Tick
  \/ Cleanup
  \/ \E p \in Procs, op \in Ops, identifier \in Identifiers : CallFixed(p, op, identifier)
  \/ \E p \in Procs : FixedDecide(p)
  \/ \E p \in Procs, op \in Ops, identifier \in Identifiers : CallSliding(p, op, identifier)
  \/ \E p \in Procs : SlidingIncrement(p)
  \/ \E p \in Procs : SlidingPseudoIncrement(p)
  \/ \E p \in Procs : SlidingDecide(p)
  \/ \E p \in Procs, outcome \in HandlerOutcomes : HandlerSettles(p, outcome)
  \/ \E p \in Procs : Return(p)

Spec == Init /\ [][Next]_vars

\* the windows the limiters over RedisStorage are configured with (every
\* window up to 1000 s gives the counter the same TTL, see FixedTtlSeconds)
RedisWindows == {1000}

\* several processes, each with a fixed-window RateLimiter over a RedisStorage
\* of one shared server
InitRedis ==
  /\ now = 0
  /\ store = [k \in {} |-> [count |-> 0, windowExpires |-> 0]]
  /\ cleanupTimer = "undefined"
  /\ limit \in Limits
  /\ algorithm = "fixed-window"
  /\ windowMs \in RedisWindows
  /\ storage = "redis"
  /\ onLimitReached = "undefined"
  /\ skipHeaders = FALSE
  /\ prefix = "rl"
  /\ proc = [p \in Procs |-> IdleProc]
  /\ incLog = [k \in {} |-> <<>>]
  /\ firstAt = [i \in Identifiers |-> -1]
  /\ nCalls = 0
  /\ unswept = store

NextRedis ==
  \/ Tick
  \/ RedisExpire
  \/ \E p \in Procs, op \in Ops, identifier \in Identifiers :
       CallFixedRedis(p, op, identifier)
  \/ \E p \in Procs : RedisEval(p)
  \/ \E p \in Procs : FixedDecide(p)
  \/ \E p \in Procs : Return(p)

SpecRedis == InitRedis /\ [][NextRedis]_vars

\* ---------------------------------------------- RateLimiter constructor
\* UNIT_MAP: milliseconds per unit
UnitMap == [unit \in {"ms", "s", "m", "h", "d"} |->
              CASE unit = "ms" -> 1
                [] unit = "s" -> 1000
                [] unit = "m" -> 60000
                [] unit = "h" -> 3600000
                [] unit = "d" -> 86400000]

\* a number of milliseconds as config.window (no unit)
Ms(n) == [value |-> n, unit |-> ""]

\* a duration string that matches parseDuration's pattern, as the two groups
\* of the match (whole values only)
Duration(value, unit) == [value |-> value, unit |-> unit]

\* parseDuration(input): a number is returned as it is, a matching string is
\* Math.ceil(value * multiplier)
ParseDuration(input) ==
  IF input.unit = "" THEN input.value
  ELSE CeilDiv(input.value * UnitMap[input.unit], 1)

DefaultLimit == 10

DefaultWindow == Duration(1, "m")

\* what the caller puts in the config: an option is <<value>>, or Null when
\* left out
ConfigLimits == {Null, <<-1>>, <<0>>, <<1>>}
ConfigWindows == {Null, <<Ms(1000)>>}
ConfigSkipHeaders == {Null, <<TRUE>>}

\* config.option ?? fallback
Coalesce(option, fallback) == IF option = Null THEN fallback ELSE option[1]

\* a response the caller hands to the applyHeaders closure
OkResponse ==
  [status |-> 200, body |-> "ok",
   headers |-> [h \in {"Content-Type"} |-> "text/plain;charset=UTF-8"]]

RateLimitHeaders ==
  {"X-RateLimit-Limit", "X-RateLimit-Remaining", "X-RateLimit-Reset", "Retry-After"}

\* the applyHeaders closure limit_() returns, called on res
ApplyHeaders(result, res) ==
  IF skipHeaders THEN res
  ELSE LET stamped == {"X-RateLimit-Limit", "X-RateLimit-Remaining",
                       "X-RateLimit-Reset"}
                        \cup (IF ~result.success THEN {"Retry-After"} ELSE {})
       IN [status |-> res.status, body |-> res.body,
           headers |-> [h \in DOMAIN res.headers \cup stamped |->
                          CASE h = "X-RateLimit-Limit" -> String(result.limit)
                            [] h = "X-RateLimit-Remaining" -> String(result.remaining)
                            [] h = "X-RateLimit-Reset" ->
                                 String(CeilDiv(result.reset, MsPerSecond))
                            [] h = "Retry-After" /\ ~result.success ->
                                 String(result.retryAfter)
                            [] OTHER -> res.headers[h]]]

\* new RateLimiter(config) with no storage, algorithm, handler or prefix in
\* the config: the fields the constructor sets, and the MemoryStorage it makes
InitConfig ==
  /\ now = 0
  /\ store = [k \in {} |-> [count |-> 0, windowExpires |-> 0]]
  /\ cleanupTimer = "set"
  /\ \E configLimit \in ConfigLimits : limit = Coalesce(configLimit, DefaultLimit)
  /\ \E configWindow \in ConfigWindows :
       windowMs = ParseDuration(Coalesce(configWindow, DefaultWindow))
  /\ storage = "memory"
  /\ algorithm = "fixed-window"
  /\ onLimitReached = "undefined"
  /\ \E configSkip \in ConfigSkipHeaders : skipHeaders = Coalesce(configSkip, FALSE)
  /\ prefix = "rl"
  /\ proc = [p \in Procs |-> IdleProc]
  /\ incLog = [k \in {} |-> <<>>]
  /\ firstAt = [i \in Identifiers |-> -1]
  /\ nCalls = 0
  /\ unswept = store

\* the caller of limit_() calls the applyHeaders closure it was given
CallerAppliesHeaders(p) ==
  /\ proc[p].pc = "returned"
  /\ proc[p].op = "limit_"
  /\ proc[p].applied = Null
  /\ proc' = [proc EXCEPT ![p].applied =
                <<ApplyHeaders(proc[p].result[1], OkResponse)>>]
  /\ UNCHANGED <<now, store, cleanupTimer, config, history>>

NextConfig ==
  \/ Tick
  \/ Cleanup
  \/ \E p \in Procs, op \in Ops, identifier \in Identifiers : CallFixed(p, op, identifier)
  \/ \E p \in Procs : FixedDecide(p)
  \/ \E p \in Procs : CallerAppliesHeaders(p)
  \/ \E p \in Procs : Return(p)

SpecConfig == InitConfig /\ [][NextConfig]_vars

\* ------------------------------------------- MemoryStorage used directly
\* MemoryStorage.delete(key)
MemoryDelete(s, key) == Remove(s, {key})

\* mutant: close() clears the map and leaves the interval running
MemoryCloseLeak(timer, s) ==
  [cleanupTimer |-> timer, store |-> Remove(s, DOMAIN s)]

\* MemoryStorage.close(): the timer field and the map afterwards
MemoryClose(timer, s) ==
  [cleanupTimer |-> IF timer # "undefined" THEN "undefined" ELSE timer,
   store |-> Remove(s, DOMAIN s)]

\* the keys and TTLs the callers of the store use
StorageKeys == {"k", "j"}
TtlSeconds == {1, 2}

\* new MemoryStorage(): an empty map and the sweep interval set.  No limiter
\* runs on this store (its fields are the constructor's defaults)
InitStorage ==
  /\ now = 0
  /\ store = [k \in {} |-> [count |-> 0, windowExpires |-> 0]]
  /\ cleanupTimer = "set"
  /\ limit = DefaultLimit
  /\ windowMs = ParseDuration(DefaultWindow)
  /\ algorithm = "fixed-window"
  /\ storage = "memory"
  /\ onLimitReached = "undefined"
  /\ skipHeaders = FALSE
  /\ prefix = "rl"
  /\ proc = [p \in Procs |-> IdleProc]
  /\ incLog = [k \in {} |-> <<>>]
  /\ firstAt = [i \in Identifiers |-> -1]
  /\ nCalls = 0
  /\ unswept = store

\* the store's methods have no await: each runs to its end inside the call,
\* and this store's user makes its calls one after another, taking the result
\* of one before the next
Quiet == \A q \in Procs : proc[q].pc = "idle"

\* storage.increment(key, ttlSeconds); the caller holds the IncrementResult
StorageIncrement(p, key, ttlSeconds) ==
  /\ Free(p)
  /\ Quiet
  /\ nCalls < MaxCalls
  /\ LET r == MemoryIncrement(store, key, ttlSeconds, now)
     IN /\ store' = r.store
        /\ incLog' = Logged(key, LogEntry("current", key, ttlSeconds, r))
        /\ proc' = [proc EXCEPT ![p] =
                      [IdleProc EXCEPT !.pc = "returned", !.op = "increment",
                                       !.key = key, !.ttlSeconds = ttlSeconds,
                                       !.count = r.count,
                                       !.windowExpires = r.windowExpires,
                                       !.entry = Len(LogOf(key)) + 1]]
  /\ unswept' = MemoryIncrement(unswept, key, ttlSeconds, now).store
  /\ nCalls' = nCalls + 1
  /\ UNCHANGED <<now, cleanupTimer, config, firstAt>>

\* storage.ttl(key)
StorageTtl(p, key) ==
  /\ Free(p)
  /\ Quiet
  /\ proc' = [proc EXCEPT ![p] =
                [IdleProc EXCEPT !.pc = "returned", !.op = "ttl", !.key = key,
                                 !.prevTtl = MemoryTtl(store, key, now)]]
  /\ UNCHANGED <<now, store, cleanupTimer, config, history>>

\* storage.delete(key)
StorageDelete(p, key) ==
  /\ Free(p)
  /\ Quiet
  /\ store' = MemoryDelete(store, key)
  /\ unswept' = MemoryDelete(unswept, key)
  /\ proc' = [proc EXCEPT ![p] =
                [IdleProc EXCEPT !.pc = "returned", !.op = "delete", !.key = key]]
  /\ UNCHANGED <<now, cleanupTimer, config, incLog, firstAt, nCalls>>

\* storage.close()
StorageClose(p) ==
  /\ Free(p)
  /\ Quiet
  /\ LET closed == MemoryClose(cleanupTimer, store)
     IN /\ cleanupTimer' = closed.cleanupTimer
        /\ store' = closed.store
  /\ unswept' = MemoryClose(cleanupTimer, unswept).store
  /\ proc' = [proc EXCEPT ![p] =
                [IdleProc EXCEPT !.pc = "returned", !.op = "close"]]
  /\ UNCHANGED <<now, config, incLog, firstAt, nCalls>>

NextStorage ==
  \/ Tick
  \/ Cleanup
  \/ \E p \in Procs, key \in StorageKeys, ttlSeconds \in TtlSeconds :
       StorageIncrement(p, key, ttlSeconds)
  \/ \E p \in Procs, key \in StorageKeys : StorageTtl(p, key)
  \/ \E p \in Procs, key \in StorageKeys : StorageDelete(p, key)
  \/ \E p \in Procs : StorageClose(p)
  \/ \E p \in Procs : Return(p)

SpecStorage == InitStorage /\ [][NextStorage]_vars

\* setInterval runs the sweep again and again for as long as the timer is set:
\* a sweep that has something to remove is not put off forever
SpecStorageFair == SpecStorage /\ WF_vars(Cleanup)

\* ------------------------------------------- limiters sharing one store
\* the prefixes of the limiters and the identifiers they are asked about:
\* ':' is an ordinary character in both
Prefixes == {"rl", "rl:a"}
SharedIdentifiers == {"a:1", "1"}

\* one RateLimiter per prefix, all over one MemoryStorage and alike in every
\* other option; `prefix` holds the constructor's default and each call
\* carries the prefix of the limiter it is made on
InitShared ==
  /\ now = 0
  /\ store = [k \in {} |-> [count |-> 0, windowExpires |-> 0]]
  /\ cleanupTimer = "set"
  /\ limit = DefaultLimit
  /\ algorithm \in {"fixed-window", "sliding-window"}
  /\ windowMs \in SlidingWindows
  /\ storage = "memory"
  /\ onLimitReached = "undefined"
  /\ skipHeaders = FALSE
  /\ prefix = "rl"
  /\ proc = [p \in Procs |-> IdleProc]
  /\ incLog = [k \in {} |-> <<>>]
  /\ firstAt = [i \in SharedIdentifiers |-> -1]
  /\ nCalls = 0
  /\ unswept = store

NextShared ==
  \/ Tick
  \/ Cleanup
  \/ \E p \in Procs, pfx \in Prefixes, identifier \in SharedIdentifiers :
       CallFixedOf(p, pfx, "check", identifier)
  \/ \E p \in Procs : FixedDecide(p)
  \/ \E p \in Procs, pfx \in Prefixes, identifier \in SharedIdentifiers :
       CallSlidingOf(p, pfx, "check", identifier)
  \/ \E p \in Procs : SlidingIncrement(p)
  \/ \E p \in Procs : SlidingPseudoIncrement(p)
  \/ \E p \in Procs : SlidingDecide(p)
  \/ \E p \in Procs : Return(p)

SpecShared == InitShared /\ [][NextShared]_vars

\* --------------------------------------------- RedisStorage used directly
\* what the server holds when the clients connect: nothing, or a key another
\* program wrote with no expiry
Keyspaces ==
  {[k \in {} |-> [count |-> 0, windowExpires |-> 0]],
   [k \in {"k"} |-> [count |-> 1, windowExpires |-> Persist]]}

\* clients calling a RedisStorage of one shared server.  No limiter runs on
\* it (its fields are the constructor's defaults)
InitRedisStorage ==
  /\ now = 0
  /\ store \in Keyspaces
  /\ cleanupTimer = "undefined"
  /\ limit = DefaultLimit
  /\ windowMs = ParseDuration(DefaultWindow)
  /\ algorithm = "fixed-window"
  /\ storage = "redis"
  /\ onLimitReached = "undefined"
  /\ skipHeaders = FALSE
  /\ prefix = "rl"
  /\ proc = [p \in Procs |-> IdleProc]
  /\ incLog = [k \in {} |-> <<>>]
  /\ firstAt = [i \in Identifiers |-> -1]
  /\ nCalls = 0
  /\ unswept = [k \in {} |-> [count |-> 0, windowExpires |-> 0]]

\* RedisStorage.increment(key, ttlSeconds) up to its await: ttlMs, the
\* client's clock, and the script sent
RedisIncrementCall(p, key, ttlSeconds) ==
  /\ Free(p)
  /\ nCalls < MaxCalls
  /\ proc' = [proc EXCEPT ![p] =
                [IdleProc EXCEPT !.pc = "eval", !.op = "increment", !.key = key,
                                 !.ttlSeconds = ttlSeconds, !.now = now]]
  /\ nCalls' = nCalls + 1
  /\ UNCHANGED <<now, store, cleanupTimer, config, incLog, firstAt, unswept>>

\* the server runs the caller's script as one indivisible unit and the caller
\* gets { count, windowExpires } of the reply
RedisIncrementEval(p) ==
  /\ proc[p].pc = "eval"
  /\ LET key == proc[p].key
         r == IncrementScript(store, key, proc[p].ttlSeconds * MsPerSecond,
                              proc[p].now, now)
     IN /\ store' = r.store
        /\ incLog' = Logged(key, LogEntry("current", key, proc[p].ttlSeconds, r))
        /\ proc' = [proc EXCEPT ![p].pc = "returned", ![p].count = r.count,
                                ![p].windowExpires = r.windowExpires,
                                ![p].at = now, ![p].entry = Len(LogOf(key)) + 1]
  /\ UNCHANGED <<now, cleanupTimer, config, firstAt, nCalls, unswept>>

NextRedisStorage ==
  \/ Tick
  \/ RedisExpire
  \/ \E p \in Procs, key \in StorageKeys, ttlSeconds \in TtlSeconds :
       RedisIncrementCall(p, key, ttlSeconds)
  \/ \E p \in Procs : RedisIncrementEval(p)
  \/ \E p \in Procs : Return(p)

SpecRedisStorage == InitRedisStorage /\ [][NextRedisStorage]_vars

\* ------------------------- RateLimiter over a RedisStorage that may fail
\* RedisStorage.ttl(key) answered by the server at its clock t: PTTL is -2
\* for a key that does not exist
RedisStorageTtl(s, key, t) ==
  LET pttl == IF RedisLive(s, key, t) THEN RedisPttl(s, key, t) ELSE -2
  IN IF pttl > 0 THEN pttl ELSE -1

\* mutant: the failed check starts over
RejectedRetried(rec) ==
  [rec EXCEPT !.pc = IF algorithm = "fixed-window" THEN "eval" ELSE "pttl",
              !.issued = rec.issued + 1]

\* an awaited storage promise rejects: no try/catch in fixedWindow(),
\* slidingWindow(), check() or limit_(), so their locals are dropped and the
\* caller gets the rejection
Rejected(rec) ==
  [IdleProc EXCEPT !.pc = "rejected", !.op = rec.op, !.prefix = rec.prefix,
                   !.identifier = rec.identifier, !.key = rec.key,
                   !.at = rec.at, !.issued = rec.issued]

\* a RateLimiter over a RedisStorage, no denial handler
InitFailing ==
  /\ now = 0
  /\ store = [k \in {} |-> [count |-> 0, windowExpires |-> 0]]
  /\ cleanupTimer = "undefined"
  /\ limit \in Limits
  /\ algorithm \in {"fixed-window", "sliding-window"}
  /\ windowMs \in RedisWindows
  /\ storage = "redis"
  /\ onLimitReached = "undefined"
  /\ skipHeaders = FALSE
  /\ prefix = "rl"
  /\ proc = [p \in Procs |-> IdleProc]
  /\ incLog = [k \in {} |-> <<>>]
  /\ firstAt = [i \in Identifiers |-> -1]
  /\ nCalls = 0
  /\ unswept = store

\* check(identifier) or limit_(req) under sliding-window over RedisStorage, up
\* to the first await: slidingWindow() reads the clock and RedisStorage.ttl
\* sends PTTL for the previous window's key
CallSlidingRedis(p, op, identifier) ==
  /\ Free(p)
  /\ nCalls < MaxCalls
  /\ algorithm = "sliding-window"
  /\ storage = "redis"
  /\ proc' = [proc EXCEPT ![p] =
                [IdleProc EXCEPT !.pc = "pttl", !.op = op, !.prefix = prefix,
                                 !.identifier = identifier,
                                 !.key = StorageKey(prefix, identifier),
                                 !.now = now, !.issued = 1]]
  /\ nCalls' = nCalls + 1
  /\ UNCHANGED <<now, store, cleanupTimer, config, incLog, firstAt, unswept>>

\* the server answers the PTTL
RedisPttlReply(p) ==
  /\ proc[p].pc = "pttl"
  /\ proc' = [proc EXCEPT ![p].pc = "ttl",
                          ![p].prevTtl = RedisStorageTtl(store, PrevKeyOf(proc[p]), now)]
  /\ UNCHANGED <<now, store, cleanupTimer, config, history>>

\* slidingWindow() resumes after `await storage.ttl`: RedisStorage.increment
\* of the current window's key reads the client's clock and sends the script
SlidingIncrementRedis(p) ==
  /\ proc[p].pc = "ttl"
  /\ storage = "redis"
  /\ proc' = [proc EXCEPT ![p].pc = "evalCurrent", ![p].sentAt = now,
                          ![p].issued = @ + 1]
  /\ UNCHANGED <<now, store, cleanupTimer, config, history>>

\* the server runs the script on the current window's key
RedisEvalCurrent(p) ==
  /\ proc[p].pc = "evalCurrent"
  /\ LET currentKey == WindowKey(proc[p].key, WindowIndex(proc[p].now, windowMs))
         ttlSeconds == SlidingTtlSeconds(windowMs) * 2
         r == IncrementScript(store, currentKey, ttlSeconds * MsPerSecond,
                              proc[p].sentAt, now)
     IN /\ store' = r.store
        /\ incLog' = Logged(currentKey, LogEntry("current", currentKey, ttlSeconds, r))
        /\ proc' = [proc EXCEPT ![p].pc = "increment", ![p].count = r.count,
                                ![p].windowExpires = r.windowExpires,
                                ![p].at = now,
                                ![p].entry = Len(LogOf(currentKey)) + 1]
  /\ UNCHANGED <<now, cleanupTimer, config, firstAt, nCalls, unswept>>

\* slidingWindow() resumes after `await storage.increment(currentKey)` with
\* prevTtl > 0: RedisStorage.increment of the previous window's key reads the
\* client's clock and sends the script
SlidingPseudoIncrementRedis(p) ==
  /\ proc[p].pc = "increment"
  /\ proc[p].prevTtl > 0
  /\ storage = "redis"
  /\ proc' = [proc EXCEPT ![p].pc = "evalPrev", ![p].sentAt = now,
                          ![p].issued = @ + 1]
  /\ UNCHANGED <<now, store, cleanupTimer, config, history>>

\* the server runs the script on the previous window's key
RedisEvalPrev(p) ==
  /\ proc[p].pc = "evalPrev"
  /\ LET prevKey == PrevKeyOf(proc[p])
         pseudoIncr == IncrementScript(store, prevKey, PseudoTtlSeconds * MsPerSecond,
                                       proc[p].sentAt, now)
     IN /\ store' = pseudoIncr.store
        /\ incLog' = Logged(prevKey, LogEntry("previous", prevKey, PseudoTtlSeconds,
                                             pseudoIncr))
        /\ proc' = [proc EXCEPT ![p].pc = "pseudoIncr",
                                ![p].prevCount = Max(0, pseudoIncr.count - 1)]
  /\ UNCHANGED <<now, cleanupTimer, config, firstAt, nCalls, unswept>>

\* the positions at which a check awaits a promise of the storage: the
\* command sent and not yet run by the server, or run and its reply on the way
AwaitingStorage ==
  {"eval", "fixedWindow", "pttl", "ttl", "evalCurrent", "increment", "evalPrev",
   "pseudoIncr"}

\* the client's promise rejects (the connection fails before the server ran
\* the command, or after it and the reply is lost)
StorageRejects(p) ==
  /\ storage = "redis"
  /\ proc[p].pc \in AwaitingStorage
  /\ proc' = [proc EXCEPT ![p] = Rejected(proc[p])]
  /\ UNCHANGED <<now, store, cleanupTimer, config, history>>

\* the caller of this limiter awaits each check before it makes the next
NextFailing ==
  \/ Tick
  \/ RedisExpire
  \/ \E p \in Procs, op \in Ops, identifier \in Identifiers :
       Quiet /\ CallFixedRedis(p, op, identifier)
  \/ \E p \in Procs : RedisEval(p)
  \/ \E p \in Procs : FixedDecide(p)
  \/ \E p \in Procs, op \in Ops, identifier \in Identifiers :
       Quiet /\ CallSlidingRedis(p, op, identifier)
  \/ \E p \in Procs : RedisPttlReply(p)
  \/ \E p \in Procs : SlidingIncrementRedis(p)
  \/ \E p \in Procs : RedisEvalCurrent(p)
  \/ \E p \in Procs : SlidingPseudoIncrementRedis(p)
  \/ \E p \in Procs : RedisEvalPrev(p)
  \/ \E p \in Procs : SlidingDecide(p)
  \/ \E p \in Procs : StorageRejects(p)
  \/ \E p \in Procs : Return(p)

SpecFailing == InitFailing /\ [][NextFailing]_vars

\* ------------------------------------------------------------ claims
\* the counter a check increments as its own: the limiter's key under
\* fixed-window, the current window's key under sliding-window
OwnKey(rec) ==
  IF algorithm = "fixed-window" THEN rec.key
  ELSE WindowKey(rec.key, WindowIndex(rec.now, windowMs))

\* the keys checks on `identifier` read or write under the configured algorithm
KeysOf(identifier) ==
  IF algorithm = "fixed-window" THEN {StorageKey(prefix, identifier)}
  ELSE {WindowKey(StorageKey(prefix, identifier), i) :
          i \in -1..WindowIndex(MaxNow, windowMs)}

\* how many increments of `key` as a check's own counter there are among the
\* first i increments of it
Ordinal(key, i) == Cardinality({j \in 1..i : LogOf(key)[j].role = "current"})

Decisions == {p \in Procs : proc[p].result # Null}

\* C1: under fixed-window over MemoryStorage, the k-th check of an identifier
\* made less than windowMs after its first check is allowed iff k <= limit,
\* and its remaining is max(0, limit - k)
C1_FixedWindowCountsTheWindow ==
  \A p \in Decisions :
    (algorithm = "fixed-window"
       /\ proc[p].at - firstAt[proc[p].identifier] < windowMs)
    => /\ proc[p].result[1].success <=> proc[p].entry <= limit
       /\ proc[p].result[1].remaining = Max(0, limit - proc[p].entry)

\* C2: under sliding-window, a check that found no live counter for the
\* preceding window and incremented its own counter inside its window is
\* allowed iff it is among the first `limit` checks of that window
C2_SlidingFirstLimitAllowed ==
  \A p \in Decisions :
    (algorithm = "sliding-window"
       /\ proc[p].prevTtl <= 0
       /\ WindowIndex(proc[p].at, windowMs) = WindowIndex(proc[p].now, windowMs))
    => (proc[p].result[1].success
          <=> Ordinal(OwnKey(proc[p]), proc[p].entry) <= limit)

\* the (limit + 1)-th check of a window with no live previous counter is denied
C2_Witness ==
  \E p \in Decisions :
    /\ algorithm = "sliding-window"
    /\ proc[p].prevTtl <= 0
    /\ WindowIndex(proc[p].at, windowMs) = WindowIndex(proc[p].now, windowMs)
    /\ Ordinal(OwnKey(proc[p]), proc[p].entry) = limit + 1
    /\ ~proc[p].result[1].success

\* C3: MemoryStorage.increment is serialized: the counts returned for one key
\* during one lifetime of its entry are 1, 2, 3, ... in order (pairwise
\* distinct, consecutive), and the stored count is the last one returned
C3_MemoryIncrementSerialized ==
  \A key \in DOMAIN incLog :
    LET log == incLog[key]
    IN /\ \A i \in DOMAIN log :
            \/ log[i].count = 1
            \/ i > 1 /\ log[i - 1].life = log[i].life
                     /\ log[i].count = log[i - 1].count + 1
       /\ \A i, j \in DOMAIN log :
            (i < j /\ log[i].life = log[j].life) => log[i].count # log[j].count
       /\ Has(store, key) => store[key].count = log[Len(log)].count

\* two callers are between their increment of the same live key and their
\* Decision, and a third increment of the key has been made
C3_Witness ==
  /\ storage = "memory"
  /\ \E p, q \in Procs :
       /\ p # q
       /\ proc[p].pc = "fixedWindow" /\ proc[q].pc = "fixedWindow"
       /\ proc[p].key = proc[q].key
       /\ proc[p].windowExpires = proc[q].windowExpires
       /\ proc[p].count = 2 /\ proc[q].count = 3

\* the increments of `key` made during the lifetime that ends at `life`
Lifetime(key, life) == {i \in DOMAIN LogOf(key) : LogOf(key)[i].life = life}

\* C4: with several processes running the increment script on one server in
\* any interleaving, the counts returned for a key during one lifetime are
\* 1, 2, 3, ... (pairwise distinct), every stored key has an expiry, and at
\* most `limit` fixed-window checks are allowed during one lifetime of a key
C4_RedisScriptIndivisible ==
  /\ \A key \in DOMAIN store : store[key].windowExpires # Persist
  /\ \A key \in DOMAIN incLog :
       LET log == incLog[key]
       IN /\ \A i \in DOMAIN log :
               \/ log[i].count = 1 /\ (i > 1 => log[i - 1].life # log[i].life)
               \/ i > 1 /\ log[i - 1].life = log[i].life
                        /\ log[i].count = log[i - 1].count + 1
          /\ \A i \in DOMAIN log :
               Cardinality({j \in Lifetime(key, log[i].life) :
                              log[j].decision = "allowed"}) <= limit

\* two processes have had their scripts run on the same key during one
\* lifetime and hold the counts limit and limit + 1, neither decided yet
C4_Witness ==
  /\ storage = "redis"
  /\ \E p, q \in Procs :
       /\ proc[p].pc = "fixedWindow" /\ proc[q].pc = "fixedWindow"
       /\ proc[p].key = proc[q].key
       /\ incLog[proc[p].key][proc[p].entry].life
            = incLog[proc[q].key][proc[q].entry].life
       /\ proc[p].count = limit /\ proc[q].count = limit + 1

\* C5: a step of a check on one identifier leaves every counter of every other
\* identifier as it was
C5_IdentifiersIndependent ==
  [][\A p \in Procs :
       proc'[p] # proc[p] =>
         LET identifier == IF proc[p].pc = "idle" THEN proc'[p].identifier
                           ELSE proc[p].identifier
         IN \A other \in Identifiers \ {identifier} :
              \A k \in KeysOf(other) : Get(store', k) = Get(store, k)]_vars

\* both identifiers hold a counter, with different counts
C5_Witness ==
  \E a, b \in Identifiers :
    /\ a # b
    /\ \E ka \in KeysOf(a), kb \in KeysOf(b) :
         /\ Has(store, ka) /\ Has(store, kb)
         /\ store[ka].count = 2 /\ store[kb].count = 1

\* C6: every Decision has retryAfter >= 0: 0 when allowed, and when denied
\* ceil((reset - now) / 1000) > 0, for a clock `now` read between the call's
\* increment and the current instant
C6_RetryAfterPositiveWhenDenied ==
  \A p \in Decisions :
    LET r == proc[p].result[1]
    IN /\ r.retryAfter >= 0
       /\ r.success => r.retryAfter = 0
       /\ ~r.success =>
            /\ r.retryAfter > 0
            /\ \E t \in 0..now : r.retryAfter = CeilDiv(r.reset - t, MsPerSecond)

C9_BlockedResponse ==
  \A p \in Procs :
    (proc[p].op = "limit_" /\ proc[p].pc = "returned")
    => LET r == proc[p].result[1]
       IN /\ proc[p].blockedResponse = Null <=> r.success
          /\ (~r.success /\ proc[p].handler \in {"none", "undefined"})
             => /\ proc[p].blockedResponse[1].status = 429
                /\ proc[p].blockedResponse[1].body =
                     "{\"error\":\"Too Many Requests\",\"retryAfter\":"
                       \o ToString(r.retryAfter) \o "}"
                /\ proc[p].blockedResponse[1].headers["Retry-After"] =
                     ToString(r.retryAfter)

\* a denied limit_() whose handler answered undefined has returned
C9_Witness ==
  \E p \in Procs :
    /\ proc[p].op = "limit_"
    /\ proc[p].pc = "returned"
    /\ proc[p].handler = "undefined"
    /\ ~proc[p].result[1].success
    /\ proc[p].blockedResponse # Null

\* C10: when the onLimitReached handler throws, limit_() returns normally with
\* the default 429 response
C10_HandlerThrowFallsBack ==
  \A p \in Procs :
    proc[p].handler = "throws"
    => /\ proc[p].pc = "returned"
       /\ proc[p].blockedResponse # Null
       /\ proc[p].blockedResponse[1].status = 429

\* C11: no RateLimiter with a limit of 0 or below exists: the constructor
\* refuses such a config, so every constructed limiter, and every Decision it
\* gives, has limit >= 1
C11_NonPositiveLimitRejected ==
  /\ limit >= 1
  /\ \A p \in Decisions : proc[p].result[1].limit >= 1

\* C12: an increment of a live MemoryStorage entry returns the expiry fixed
\* when the entry was created: every increment that found a live entry
\* (count > 1) was made before that expiry and returns the windowExpires of
\* the increment before it, whatever ttlSeconds it passed, and the map holds
\* that expiry still
C12_ExpiryFixedAtCreation ==
  \A key \in DOMAIN incLog :
    LET log == incLog[key]
    IN /\ \A i \in DOMAIN log :
            log[i].count > 1
            => /\ i > 1
               /\ log[i].windowExpires = log[i - 1].windowExpires
               /\ log[i].life = log[i - 1].life
               /\ log[i].at < log[i].windowExpires
       /\ \A i \in DOMAIN log : log[i].life = log[i].windowExpires
       /\ Has(store, key) => store[key].windowExpires = log[Len(log)].windowExpires

\* an entry was incremented three times, at three clocks and not with the
\* same ttlSeconds each time, and every increment returned the same expiry
C12_Witness ==
  \E key \in DOMAIN incLog :
    LET log == incLog[key]
    IN /\ Len(log) = 3
       /\ log[3].count = 3
       /\ log[1].at < log[2].at /\ log[2].at < log[3].at
       /\ log[2].ttlSeconds # log[1].ttlSeconds
       /\ log[3].windowExpires = log[1].windowExpires
       /\ Has(store, key) /\ store[key].windowExpires = log[1].windowExpires

\* C13: increment(key, T) of a key with no live entry (never incremented,
\* deleted, or expired) returns count 1 and windowExpires = now + T * 1000 and
\* stores them, whatever count the key held before
C13_IncrementStartsAfresh ==
  [][\A p \in Procs :
       (proc[p].pc = "idle" /\ proc'[p].op = "increment"
          /\ ~Live(store, proc'[p].key, now))
       => /\ proc'[p].count = 1
          /\ proc'[p].windowExpires = now + proc'[p].ttlSeconds * 1000
          /\ Has(store', proc'[p].key)
          /\ store'[proc'[p].key] =
               [count |-> 1,
                windowExpires |-> now + proc'[p].ttlSeconds * 1000]]_vars

\* a key that held count 2 was deleted while live and its next increment, made
\* before the old expiry, returned count 1 and a later expiry
C13_Witness ==
  /\ cleanupTimer = "set"
  /\ \E p \in Procs :
       /\ proc[p].op = "increment" /\ proc[p].pc = "returned"
       /\ proc[p].entry = 3
       /\ LET log == incLog[proc[p].key]
          IN /\ log[2].count = 2
             /\ log[3].count = 1
             /\ log[3].at < log[2].windowExpires
             /\ log[3].windowExpires > log[2].windowExpires

\* the ttlSeconds the entry now stored at `key` was created with
CreatedWith(key) ==
  LET log == LogOf(key)
      i == CHOOSE n \in DOMAIN log :
             log[n].count = 1 /\ \A m \in DOMAIN log : m > n => log[m].count > 1
  IN log[i].ttlSeconds

\* C14: MemoryStorage.ttl(key) is a pure read: it answers -1 when the key is
\* absent or its windowExpires <= now, else windowExpires - now, which lies in
\* (0, T * 1000] for an entry created with ttlSeconds T; and it leaves the map,
\* and the record of increments, as they were
C14_TtlIsAPureRead ==
  [][\A p \in Procs :
       (proc[p].pc = "idle" /\ proc'[p].op = "ttl")
       => LET key == proc'[p].key
              ttl == proc'[p].prevTtl
          IN /\ store' = store
             /\ incLog' = incLog
             /\ (~Has(store, key) \/ store[key].windowExpires <= now) => ttl = -1
             /\ (Has(store, key) /\ store[key].windowExpires > now)
                => /\ ttl = store[key].windowExpires - now
                   /\ ttl > 0
                   /\ ttl <= CreatedWith(key) * 1000]_vars

\* ttl answered 500 for an entry created with ttlSeconds 1, and the entry is
\* as its increment left it
C14_Witness ==
  \E p \in Procs :
    /\ proc[p].op = "ttl" /\ proc[p].pc = "returned"
    /\ proc[p].prevTtl = 500
    /\ Has(store, proc[p].key)
    /\ CreatedWith(proc[p].key) = 1
    /\ store[proc[p].key].count = 1

\* the checks that incremented `key` as their own counter at a clock in
\* [start, start + span) and were allowed
AllowedIn(key, start, span) ==
  {j \in DOMAIN LogOf(key) :
     /\ LogOf(key)[j].role = "current"
     /\ LogOf(key)[j].decision = "allowed"
     /\ start <= LogOf(key)[j].at
     /\ LogOf(key)[j].at < start + span}

\* C15: under fixed-window with limit L >= 1 and window W, at most 2 * L of
\* the checks of one identifier that fall in any span of W ms are allowed
C15_FixedWindowBoundaryBurst ==
  (algorithm = "fixed-window" /\ limit >= 1)
  => \A identifier \in Identifiers :
       LET key == StorageKey(prefix, identifier)
       IN \A i \in DOMAIN LogOf(key) :
            Cardinality(AllowedIn(key, LogOf(key)[i].at, windowMs)) <= 2 * limit

\* C17: with skipHeaders = true the applyHeaders closure returns the response
\* it was given, unchanged, and no response limit_() produces, its
\* blockedResponse included, carries X-RateLimit-Limit, X-RateLimit-Remaining,
\* X-RateLimit-Reset or Retry-After
C17_SkipHeadersEmitsNone ==
  skipHeaders
  => \A p \in Procs :
       (proc[p].op = "limit_" /\ proc[p].pc = "returned")
       => /\ proc[p].applied # Null
             => /\ proc[p].applied[1] = OkResponse
                /\ DOMAIN proc[p].applied[1].headers \cap RateLimitHeaders = {}
          /\ proc[p].blockedResponse # Null
             => DOMAIN proc[p].blockedResponse[1].headers \cap RateLimitHeaders = {}

\* C18: the sweep timer of a MemoryStorage is set at construction; close()
\* returns without error and leaves the timer stopped, the second close() as
\* the first; once stopped the timer is never set again and no sweep runs: an
\* expired entry leaves the map only by a delete() or a close()
C18_SweepTimerLifecycle ==
  /\ cleanupTimer = "set"
  /\ [](\A p \in Procs :
          proc[p].op = "close" => proc[p].pc = "returned" /\ cleanupTimer = "undefined")
  /\ [][cleanupTimer = "undefined"
          => /\ cleanupTimer' = "undefined"
             /\ (\E k \in DOMAIN store : ~Has(store', k))
                => \E p \in Procs : /\ proc[p].pc = "idle"
                                     /\ proc'[p].op \in {"delete", "close"}]_vars

\* after close() an entry was created and has expired, and is still in the
\* map with the timer stopped
C18_Witness ==
  /\ cleanupTimer = "undefined"
  /\ \E k \in DOMAIN store : store[k].windowExpires < now

\* C19: a fixed-window limiter with window W ms calls storage.increment with
\* ttlSeconds = ceil(W / 1000), and the counter entry a check creates expires
\* ceil(W / 1000) seconds after the check
C19_FixedWindowTtlIsTheWindow ==
  algorithm = "fixed-window"
  => \A identifier \in Identifiers :
       LET log == LogOf(StorageKey(prefix, identifier))
       IN \A i \in DOMAIN log :
            /\ log[i].ttlSeconds = CeilDiv(windowMs, 1000)
            /\ log[i].count = 1
               => log[i].windowExpires = log[i].at + CeilDiv(windowMs, 1000) * 1000

\* the key of the sliding-window counter of `identifier` for window `index`
SlidingKey(identifier, index) == WindowKey(StorageKey(prefix, identifier), index)

\* the sliding-window checks of `identifier` that were allowed, each as
\* <<window index, place in the log of that window's key>>; a check counts at
\* the clock of the increment of its own counter, and the checks taken are
\* those that made that increment inside the window they entered in
AllowedChecks(identifier) ==
  {e \in (0..WindowIndex(MaxNow, windowMs)) \X (1..MaxCalls) :
     /\ e[2] \in DOMAIN LogOf(SlidingKey(identifier, e[1]))
     /\ LET entry == LogOf(SlidingKey(identifier, e[1]))[e[2]]
        IN /\ entry.role = "current"
           /\ entry.decision = "allowed"
           /\ WindowIndex(entry.at, windowMs) = e[1]}

CheckedAt(identifier, e) == LogOf(SlidingKey(identifier, e[1]))[e[2]].at

ChecksIn(identifier, index) ==
  {j \in DOMAIN LogOf(SlidingKey(identifier, index)) :
     LogOf(SlidingKey(identifier, index))[j].role = "current"}

\* no check of `identifier` was suspended across a window boundary: each own
\* counter was incremented in its window, each previous window's counter in
\* the window after it
Prompt(identifier) ==
  \A index \in -1..WindowIndex(MaxNow, windowMs) :
    LET log == LogOf(SlidingKey(identifier, index))
    IN \A j \in DOMAIN log :
         WindowIndex(log[j].at, windowMs) =
           IF log[j].role = "current" THEN index ELSE index + 1

\* C20: a sliding-window check decides on effectiveCount =
\* ceil(previousCount * overlapRatio + currentCount), where currentCount is
\* the number of checks of the identifier in the current window, this one
\* included, and previousCount the number of checks made in the window before
\* (0 if its counter was absent or expired); it is allowed iff
\* effectiveCount <= limit.  Stated of the runs in which no check is
\* suspended across a window boundary
C20_SlidingEffectiveCount ==
  \A p \in Decisions :
    (algorithm = "sliding-window" /\ Prompt(proc[p].identifier))
    => LET identifier == proc[p].identifier
           index == WindowIndex(proc[p].now, windowMs)
           currentCount ==
             Cardinality({j \in ChecksIn(identifier, index) : j <= proc[p].entry})
           previousCount ==
             IF proc[p].prevTtl > 0
             THEN Cardinality(ChecksIn(identifier, index - 1)) ELSE 0
           effectiveCount ==
             Effective(previousCount, currentCount, proc[p].now, windowMs)
       IN /\ proc[p].count = currentCount
          /\ proc[p].prevCount = previousCount
          /\ proc[p].result[1].success <=> effectiveCount <= limit

\* C21: the compensating increment of the previous window's key leaves that
\* key's stored count and expiry as they were before the check.  Stated of
\* the runs in which no check is suspended across a window boundary
C21_CompensatingIncrementUndone ==
  [][\A p \in Procs :
       (/\ proc[p].pc = "increment" /\ proc'[p].pc = "pseudoIncr"
        /\ Prompt(proc[p].identifier))
       => Get(store', PrevKeyOf(proc[p])) = Get(store, PrevKeyOf(proc[p]))]_vars

\* the live sliding-window counters the store holds for `identifier`
LiveKeys(identifier) ==
  {k \in KeysOf(identifier) : Live(store, k, now)}

\* C22: under sliding-window the store holds at most 2 live counter entries
\* for one identifier.  Stated of the runs in which no check is suspended
\* across a window boundary
C22_TwoLiveKeysPerIdentifier ==
  algorithm = "sliding-window"
  => \A identifier \in Identifiers :
       Prompt(identifier) => Cardinality(LiveKeys(identifier)) <= 2

\* C30: the compensating increment never creates an entry for the previous
\* window's key: the entry is live at the moment of the increment
C30_CompensatingIncrementFindsLiveEntry ==
  [][\A p \in Procs :
       (proc[p].pc = "increment" /\ proc'[p].pc = "pseudoIncr")
       => Live(store, PrevKeyOf(proc[p]), now)]_vars

\* C23: RedisStorage.increment on a key that is live returns the windowExpires
\* the increment that created the key returned, whatever time passes between
\* the client's clock read and the script's run
C23_RedisExpiryStable ==
  \A key \in DOMAIN incLog :
    \A i \in DOMAIN LogOf(key), j \in DOMAIN LogOf(key) :
      (LogOf(key)[j].count = 1 /\ LogOf(key)[i].life = LogOf(key)[j].life)
      => LogOf(key)[i].windowExpires = LogOf(key)[j].windowExpires

\* the clock value at which the caller made its fixed-window check
MadeAt(rec) == IF storage = "redis" THEN rec.now ELSE rec.at

\* C29: under fixed-window with limit >= 1, when a check of an identifier is
\* denied with reset R, the next check of that identifier, made at a time
\* >= R, is allowed
C29_AllowedOnceResetPassed ==
  \A p \in Decisions :
    LET log == LogOf(proc[p].key)
        i == proc[p].entry
    IN (/\ algorithm = "fixed-window"
        /\ limit >= 1
        /\ i > 1
        /\ log[i - 1].decision = "denied"
        /\ MadeAt(proc[p]) >= log[i - 1].windowExpires)
       => proc[p].result[1].success

\* the entry of `key` has expired and is still in the map of an open store
Stale(key) ==
  /\ cleanupTimer = "set"
  /\ Has(store, key)
  /\ store[key].windowExpires <= now

\* C26: while the store is open and its sweep keeps firing, an entry whose
\* windowExpires has passed and that is not re-incremented is eventually
\* removed from the map
C26_ExpiredEntriesEventuallySwept ==
  \A key \in StorageKeys :
    Stale(key) ~> (~Has(store, key) \/ Live(store, key, now) \/ cleanupTimer # "set")

\* the sweep removed an expired entry nobody deleted
C26_Witness ==
  \E key \in StorageKeys :
    /\ cleanupTimer = "set"
    /\ Has(unswept, key)
    /\ ~Has(store, key)
    /\ unswept[key].windowExpires <= now

\* C27: the sweep is invisible to the callers: it removes only entries whose
\* windowExpires <= now and leaves the others as they are, and every count,
\* windowExpires and ttl the store returns is the one the same calls would
\* have returned had no sweep run
C27_SweepIsInvisible ==
  [][/\ (proc' = proc /\ now' = now /\ cleanupTimer' = cleanupTimer)
        => \A key \in DOMAIN store :
             IF Has(store', key) THEN store'[key] = store[key]
             ELSE store[key].windowExpires <= now
     /\ \A p \in Procs :
          (proc[p].pc = "idle" /\ proc'[p].op = "increment")
          => LET r == MemoryIncrement(unswept, proc'[p].key, proc'[p].ttlSeconds, now)
             IN /\ proc'[p].count = r.count
                /\ proc'[p].windowExpires = r.windowExpires
     /\ \A p \in Procs :
          (proc[p].pc = "idle" /\ proc'[p].op = "ttl")
          => proc'[p].prevTtl = MemoryTtl(unswept, proc'[p].key, now)]_vars

\* a call was answered for a key whose expired entry the sweep had removed
C27_Witness ==
  \E p \in Procs :
    /\ proc[p].pc = "returned"
    /\ proc[p].op \in {"increment", "ttl"}
    /\ \E key \in DOMAIN unswept : ~Has(store, key)
    /\ proc[p].op = "increment" => proc[p].count = 1 /\ proc[p].entry > 1

\* C24 as stated: the script increments the key and answers
\* (count, now + max(remaining lifetime read, supplied TTL in ms))
C24_ScriptAnswersMax ==
  [][\A p \in Procs :
       (proc[p].pc = "eval" /\ proc'[p].pc = "returned")
       => LET key == proc[p].key
              ttl_ms == proc[p].ttlSeconds * MsPerSecond
          IN /\ proc'[p].count = store'[key].count
             /\ proc'[p].windowExpires =
                  proc[p].now + Max(RedisPttl(store', key, now), ttl_ms)]_vars

\* C24 amended: the script increments the key (from 0 if it does not exist),
\* sets its expiry to the supplied TTL iff the resulting count is 1, and
\* answers (count, now + remaining lifetime read) when that lifetime is
\* positive, (count, now + supplied TTL in ms) when the key has no expiry
C24_ScriptAnswersRemainingLifetime ==
  [][\A p \in Procs :
       (proc[p].pc = "eval" /\ proc'[p].pc = "returned")
       => LET key == proc[p].key
              ttl_ms == proc[p].ttlSeconds * MsPerSecond
              pttl == RedisPttl(store', key, now)
          IN /\ store'[key].count =
                  IF RedisLive(store, key, now) THEN store[key].count + 1 ELSE 1
             /\ store'[key].windowExpires =
                  IF store'[key].count = 1 THEN now + ttl_ms
                  ELSE store[key].windowExpires
             /\ proc'[p].count = store'[key].count
             /\ proc'[p].windowExpires =
                  proc[p].now + (IF pttl > 0 THEN pttl ELSE ttl_ms)]_vars

\* the script answered for a key with less left to live than the supplied TTL
C24_Witness ==
  \E p \in Procs :
    /\ proc[p].pc = "returned"
    /\ proc[p].op = "increment"
    /\ proc[p].count > 1
    /\ proc[p].windowExpires < proc[p].now + proc[p].ttlSeconds * MsPerSecond

\* C28: limiters sharing one store never count two distinct
\* (prefix, identifier) pairs on one key, under fixed-window and under
\* sliding-window keying, ':' being allowed in prefixes and identifiers
C28_StorageKeysInjective ==
  \A p \in Procs, q \in Procs :
    (/\ proc[p].pc # "idle"
     /\ proc[q].pc # "idle"
     /\ <<proc[p].prefix, proc[p].identifier>> # <<proc[q].prefix, proc[q].identifier>>)
    => /\ proc[p].key # proc[q].key
       /\ \A i \in -1..WindowIndex(MaxNow, windowMs), j \in -1..WindowIndex(MaxNow, windowMs) :
            WindowKey(proc[p].key, i) # WindowKey(proc[q].key, j)

\* C25: when a storage call of a check fails, the caller gets the rejection
\* and no Decision; the failing step changes nothing in the store and makes
\* no storage call, and the rejected check takes no further step but its
\* return: a fixed-window check issues exactly one increment, a
\* sliding-window check at most its ttl and its two increments
C25_StorageFailurePropagates ==
  [][\A p \in Procs :
       /\ (proc'[p].pc = "rejected" /\ proc[p].pc # "rejected")
           => /\ proc'[p].result = Null
              /\ proc'[p].blockedResponse = Null
              /\ proc'[p].issued = proc[p].issued
              /\ store' = store
              /\ incLog' = incLog
       /\ proc[p].pc = "rejected" => proc'[p] \in {proc[p], IdleProc}
       /\ proc'[p].pc # "idle"
           => IF algorithm = "fixed-window" THEN proc'[p].issued = 1
              ELSE proc'[p].issued \in 1..3]_vars

\* a check was rejected after its increment had run on the server, and made
\* no other storage call
C25_Witness ==
  \E p \in Procs :
    /\ proc[p].pc = "rejected"
    /\ proc[p].at # -1
    /\ proc[p].result = Null
    /\ proc[p].issued = IF algorithm = "fixed-window" THEN 1 ELSE 2

\* an earlier increment of the same counter entry (same lifetime of the key)
\* belongs to a check that was denied
DeniedBefore(key, j) ==
  \E i \in 1..(j - 1) :
    /\ LogOf(key)[i].life = LogOf(key)[j].life
    /\ LogOf(key)[i].decision = "denied"

\* C31: under fixed-window, once a check of an identifier is denied, every
\* later check of it that increments the same counter entry (before the
\* entry's windowExpires, the entry not deleted) is denied, with remaining 0
C31_DenialIsSticky ==
  algorithm = "fixed-window"
  => /\ \A key \in DOMAIN incLog :
          \A j \in DOMAIN LogOf(key) :
            DeniedBefore(key, j) => LogOf(key)[j].decision \in {"pending", "denied"}
     /\ \A p \in Decisions :
          DeniedBefore(proc[p].key, proc[p].entry)
          => /\ ~proc[p].result[1].success
             /\ proc[p].result[1].remaining = 0

\* a check that incremented a live entry after a denied check of that entry
\* was denied too
C31_Witness ==
  \E p \in Decisions :
    /\ algorithm = "fixed-window"
    /\ DeniedBefore(proc[p].key, proc[p].entry)
    /\ LogOf(proc[p].key)[proc[p].entry].at < LogOf(proc[p].key)[proc[p].entry].life
    /\ ~proc[p].result[1].success

====
